---- MODULE Spec2Model ----
(***************************************************************************)
(* Model of the SEO analysis API of src/main.py: the suggestion fetcher,   *)
(* the two scorers, the keyword merger, the advisor and the two POST       *)
(* endpoints.  Python strings are sequences of one-character strings, so   *)
(* that lower(), split() and the substring test are computed, not assumed. *)
(* The score arithmetic is Python's: a true division of two ints to an     *)
(* IEEE-754 double, a double multiplication by 100 and a truncation.       *)
(***************************************************************************)
EXTENDS Integers, Sequences, FiniteSets, TLC

\* ------------------------------------------------------------------ bounds
MaxKw == 2          \* longest enumerated keyword list of a direct call
MaxSug == 2         \* longest suggestion list the provider answers with
MaxResults == 2     \* largest explicit max_results besides the default
MaxKwHttp == 1      \* longest keyword list of a POST /analyze body
ManyKeywords == 50  \* length of the long two-valued keyword lists

\* ------------------------------------------------------- program constants
DefaultMax == 10    \* max_results: int = 10
MaxWords == 4       \* len(k.split()) > 4
Percent == 100      \* ... * 100
Mantissa == 53      \* significand bits of a Python float (IEEE-754 double)
LimbBits == 18      \* width of one limb of the significand arithmetic
StatusOk == 200
StatusError == 500

\* ------------------------------------------------------------ Python floats
\* A significand is four limbs of LimbBits bits, most significant first; a float
\* is [mant, exp] of value mant * 2^exp.  The operators cover the operands the
\* scorers produce: counts and totals below 2^13.
Limb == 2 ^ LimbBits

ZeroLimbs == <<0, 0, 0, 0>>

RECURSIVE BitLenInt(_)
BitLenInt(i) ==
    IF i = 0 THEN 0 ELSE 1 + BitLenInt(i \div 2)

BitLen(X) ==
    IF X[1] # 0 THEN 3 * LimbBits + BitLenInt(X[1])
    ELSE IF X[2] # 0 THEN 2 * LimbBits + BitLenInt(X[2])
    ELSE IF X[3] # 0 THEN LimbBits + BitLenInt(X[3])
    ELSE BitLenInt(X[4])

\* X * k for a small k, limb by limb with carry
MulSmall(X, k) ==
    LET p4 == X[4] * k
        p3 == X[3] * k + p4 \div Limb
        p2 == X[2] * k + p3 \div Limb
        p1 == X[1] * k + p2 \div Limb
    IN <<p1, p2 % Limb, p3 % Limb, p4 % Limb>>

\* X + 1
IncLimbs(X) ==
    IF X[4] + 1 < Limb THEN <<X[1], X[2], X[3], X[4] + 1>>
    ELSE IF X[3] + 1 < Limb THEN <<X[1], X[2], X[3] + 1, 0>>
    ELSE IF X[2] + 1 < Limb THEN <<X[1], X[2] + 1, 0, 0>>
    ELSE <<X[1] + 1, 0, 0, 0>>

\* floor(X / 2^s)
RECURSIVE ShiftRight(_, _)
ShiftRight(X, s) ==
    IF s >= LimbBits THEN ShiftRight(<<0, X[1], X[2], X[3]>>, s - LimbBits)
    ELSE LET lo == 2 ^ s
             hi == 2 ^ (LimbBits - s)
         IN <<X[1] \div lo,
              (X[1] % lo) * hi + X[2] \div lo,
              (X[2] % lo) * hi + X[3] \div lo,
              (X[3] % lo) * hi + X[4] \div lo>>

\* round-to-nearest, ties-to-even, of X * 2^exp (+ a nonzero tail below the
\* last bit when sticky) to a significand of Mantissa bits
RoundNearestEven(X, exp, sticky) ==
    LET L == BitLen(X) IN
    IF L <= Mantissa THEN [mant |-> X, exp |-> exp]
    ELSE LET u == L - Mantissa
             low == X[4] % (2 ^ u)
             half == 2 ^ (u - 1)
             top == ShiftRight(X, u)
             up == \/ low > half
                   \/ low = half /\ (sticky \/ top[4] % 2 = 1)
             m == IF up THEN IncLimbs(top) ELSE top
         IN IF BitLen(m) > Mantissa
            THEN [mant |-> ShiftRight(m, 1), exp |-> exp + u + 1]
            ELSE [mant |-> m, exp |-> exp + u]

\* the smallest z >= 0 with 2 * m * 2^z >= n, for m > 0
RECURSIVE ScaleUp(_, _)
ScaleUp(m, n) ==
    IF 2 * m >= n THEN 0 ELSE 1 + ScaleUp(2 * m, n)

\* the smallest j >= 0 with m < n * 2^j
RECURSIVE ScaleDown(_, _)
ScaleDown(m, n) ==
    IF m < n THEN 0 ELSE 1 + ScaleDown(m, 2 * n)

\* Python's m / n on ints m >= 0, n > 0: the correctly rounded quotient, by a
\* long division of the operands scaled to 1/2 <= m/n < 1
TrueDiv(m, n) ==
    IF m = 0 THEN [mant |-> ZeroLimbs, exp |-> 0]
    ELSE LET j == ScaleDown(m, n)
             z == IF j > 0 THEN 0 ELSE ScaleUp(m, n)
             ms == m * 2 ^ z
             ns == n * 2 ^ j
             q1 == (ms * Limb) \div ns
             r1 == (ms * Limb) % ns
             q2 == (r1 * Limb) \div ns
             r2 == (r1 * Limb) % ns
             q3 == (r2 * Limb) \div ns
             r3 == (r2 * Limb) % ns
         IN RoundNearestEven(<<0, q1, q2, q3>>, j - z - 3 * LimbBits, r3 # 0)

\* Python's f * k for a float f and an int k, which converts to a float exactly
FloatMulInt(f, k) ==
    RoundNearestEven(MulSmall(f.mant, k), f.exp, FALSE)

\* Python's int(f) on a float f >= 0: truncation toward zero
FloatToInt(f) ==
    LET X == IF f.exp >= 0 THEN MulSmall(f.mant, 2 ^ f.exp)
             ELSE ShiftRight(f.mant, 0 - f.exp)
    IN (X[2] * Limb + X[3]) * Limb + X[4]

\* int((count / total) * 100)
PercentOf(count, total) ==
    FloatToInt(FloatMulInt(TrueDiv(count, total), Percent))

\* ----------------------------------------------------------- Python strings
UpperLetters == 
    <<"A", "B", "C", "D", "E", "F", "G", "H", "I", "J", "K", "L", "M", "N",
    "O", "P", "Q", "R", "S", "T", "U", "V", "W", "X", "Y", "Z">>

LowerLetters == 
    <<"a", "b", "c", "d", "e", "f", "g", "h", "i", "j", "k", "l", "m", "n",
    "o", "p", "q", "r", "s", "t", "u", "v", "w", "x", "y", "z">>

UpperSet == {UpperLetters[i] : i \in 1..Len(UpperLetters)}

\* str.lower() of one character
LowerChar(c) ==
    IF c \in UpperSet
    THEN LowerLetters[CHOOSE i \in 1..Len(UpperLetters) : UpperLetters[i] = c]
    ELSE c

\* str.lower()
Lower(s) == [i \in 1..Len(s) |-> LowerChar(s[i])]

\* the characters str.split() separates at
IsSpace(c) == c \in {" ", "\t", "\n"}

\* sub in s
Contains(sub, s) ==
    \E i \in 0..(Len(s) - Len(sub)) : SubSeq(s, i + 1, i + Len(sub)) = sub

\* str.split(): the maximal runs of non-whitespace characters, in order
RECURSIVE SplitFrom(_, _, _, _)
SplitFrom(s, i, word, words) ==
    IF i > Len(s) THEN (IF word = <<>> THEN words ELSE Append(words, word))
    ELSE IF IsSpace(s[i])
    THEN SplitFrom(s, i + 1, <<>>, IF word = <<>> THEN words ELSE Append(words, word))
    ELSE SplitFrom(s, i + 1, Append(word, s[i]), words)

Split(s) == SplitFrom(s, 1, <<>>, <<>>)

\* sep.join(parts)
RECURSIVE Join(_, _)
Join(sep, parts) ==
    IF parts = <<>> THEN <<>>
    ELSE IF Len(parts) = 1 THEN parts[1]
    ELSE parts[1] \o sep \o Join(sep, Tail(parts))

\* s[:n] for n >= 0
Take(s, n) == SubSeq(s, 1, IF n < Len(s) THEN n ELSE Len(s))

\* list(dict.fromkeys(s)): the keys in insertion order, a key already present
\* keeping its first position
RECURSIVE FromKeys(_, _, _)
FromKeys(s, i, keys) ==
    IF i > Len(s) THEN keys
    ELSE IF \E j \in 1..Len(keys) : keys[j] = s[i] THEN FromKeys(s, i + 1, keys)
    ELSE FromKeys(s, i + 1, Append(keys, s[i]))

DictFromKeys(s) == FromKeys(s, 1, <<>>)

NoSuggestions == 
    <<"N", "o", " ", "s", "u", "g", "g", "e", "s", "t", "i", "o", "n", "s",
    " ", "f", "o", "u", "n", "d">>

ErrorPrefix == <<"E", "r", "r", "o", "r", ":", " ">>

LooksGood == 
    <<"K", "e", "y", "w", "o", "r", "d", "s", " ", "a", "n", "d", " ", "t",
    "o", "p", "i", "c", " ", "l", "o", "o", "k", " ", "g", "o", "o", "d",
    ".">>

Unable == 
    <<"U", "n", "a", "b", "l", "e", " ", "t", "o", " ", "g", "e", "n", "e",
    "r", "a", "t", "e", " ", "s", "u", "g", "g", "e", "s", "t", "i", "o",
    "n", "s", " ", "d", "u", "e", " ", "t", "o", " ", "a", "n", " ", "e",
    "r", "r", "o", "r", ".">>

MsgAddTopicWord == 
    <<"A", "d", "d", " ", "k", "e", "y", "w", "o", "r", "d", "s", " ", "i",
    "n", "c", "l", "u", "d", "i", "n", "g", " ", "m", "a", "i", "n", " ",
    "t", "o", "p", "i", "c", " ", "w", "o", "r", "d", " ", "'">>

Quote == <<"'">>

MsgTooLong == 
    <<"A", "v", "o", "i", "d", " ", "v", "e", "r", "y", " ", "l", "o", "n",
    "g", " ", "k", "e", "y", "w", "o", "r", "d", "s", ";", " ", "k", "e",
    "e", "p", " ", "k", "e", "y", "w", "o", "r", "d", "s", " ", "c", "o",
    "n", "c", "i", "s", "e", " ", "(", "m", "a", "x", " ", "4", " ", "w",
    "o", "r", "d", "s", ")">>

MsgAddKeywords == 
    <<"A", "d", "d", " ", "r", "e", "l", "e", "v", "a", "n", "t", " ", "k",
    "e", "y", "w", "o", "r", "d", "s", " ", "r", "e", "l", "a", "t", "e",
    "d", " ", "t", "o", " ", "y", "o", "u", "r", " ", "t", "o", "p", "i",
    "c">>

SuggestionsPrefix == <<"S", "u", "g", "g", "e", "s", "t", "i", "o", "n", "s", ":", " ">>

JoinSep == <<";", " ">>

\* ------------------------------------------------------ the outcome of a call
Returned(v) == [raised |-> FALSE, value |-> v]

Raised(msg) == [raised |-> TRUE, value |-> msg]

\* client.search(...) of the provider: it raises with a message, or answers
\* with the "value" fields of results.get("suggestions", [])
Fails(msg) == [raises |-> TRUE, message |-> msg, values |-> <<>>]

Answers(values) == [raises |-> FALSE, message |-> <<>>, values |-> values]

\* -------------------------------------------------------------- src/main.py
\* mutant: the except branch lets the provider's error through
get_google_autocomplete_suggestions_reraising(topic_, max_results_, outcome) ==
    IF outcome.raises
    THEN Raised(outcome.message)
    ELSE LET suggestions == Take(outcome.values, max_results_)
         IN Returned(IF suggestions # <<>> THEN suggestions ELSE <<NoSuggestions>>)

\* mutant: the [:max_results] slice is missing
get_google_autocomplete_suggestions_untruncated(topic_, max_results_, outcome) ==
    IF outcome.raises
    THEN Returned(<<ErrorPrefix \o outcome.message>>)
    ELSE Returned(IF outcome.values # <<>> THEN outcome.values ELSE <<NoSuggestions>>)

\* mutant: an empty result is returned as it is, without the sentinel
get_google_autocomplete_suggestions_no_sentinel(topic_, max_results_, outcome) ==
    IF outcome.raises
    THEN Returned(<<ErrorPrefix \o outcome.message>>)
    ELSE Returned(Take(outcome.values, max_results_))

get_google_autocomplete_suggestions(topic_, max_results_, outcome) ==
    IF outcome.raises
    THEN Returned(<<ErrorPrefix \o outcome.message>>)
    ELSE LET suggestions == Take(outcome.values, max_results_)
         IN Returned(IF suggestions # <<>> THEN suggestions ELSE <<NoSuggestions>>)

\* kw.lower() in s.lower() or s.lower() in kw.lower(), for some s of suggestions
\* that is not the sentinel
KeywordMatches(kw, suggestions) ==
    \E j \in 1..Len(suggestions) :
        /\ suggestions[j] # NoSuggestions
        /\ \/ Contains(Lower(kw), Lower(suggestions[j]))
           \/ Contains(Lower(suggestions[j]), Lower(kw))

\* mutant: the matches are divided by the number of suggestions
calculate_seo_score_per_suggestion(topic_, keywords_, outcome) ==
    LET fetched == get_google_autocomplete_suggestions(topic_, DefaultMax, outcome)
    IN IF fetched.raised THEN 0
       ELSE LET suggestions == fetched.value
                matched == Cardinality({i \in 1..Len(keywords_) :
                               KeywordMatches(keywords_[i], suggestions)})
                total == IF Len(suggestions) > 1 THEN Len(suggestions) ELSE 1
            IN PercentOf(matched, total)

calculate_seo_score(topic_, keywords_, outcome) ==
    LET fetched == get_google_autocomplete_suggestions(topic_, DefaultMax, outcome)
    IN IF fetched.raised THEN 0
       ELSE LET suggestions == fetched.value
                matched == Cardinality({i \in 1..Len(keywords_) :
                               KeywordMatches(keywords_[i], suggestions)})
                total == IF Len(keywords_) > 1 THEN Len(keywords_) ELSE 1
            IN PercentOf(matched, total)

\* sug != "No suggestions found" and any(word in sug.lower() for word in words)
SuggestionTrends(sug, words) ==
    /\ sug # NoSuggestions
    /\ \E w \in 1..Len(words) : Contains(words[w], Lower(sug))

calculate_trending_score(topic_, outcome) ==
    LET fetched == get_google_autocomplete_suggestions(topic_, DefaultMax, outcome)
    IN IF fetched.raised THEN 0
       ELSE LET suggestions == fetched.value
                words == Split(Lower(topic_))
                count == Cardinality({i \in 1..Len(suggestions) :
                             SuggestionTrends(suggestions[i], words)})
                total == IF Len(suggestions) > 1 THEN Len(suggestions) ELSE 1
            IN PercentOf(count, total)

\* mutant: the two lists are joined without removing the repeated entries
get_related_keywords_without_dedup(topic_, input_keywords, max_results_, outcome) ==
    LET fetched == get_google_autocomplete_suggestions(topic_, max_results_, outcome)
    IN IF fetched.raised THEN Take(input_keywords, max_results_)
       ELSE Take(fetched.value \o input_keywords, max_results_)

get_related_keywords(topic_, input_keywords, max_results_, outcome) ==
    LET fetched == get_google_autocomplete_suggestions(topic_, max_results_, outcome)
    IN IF fetched.raised THEN Take(input_keywords, max_results_)
       ELSE Take(DictFromKeys(fetched.value \o input_keywords), max_results_)

\* rule 1: not any(topic_words[0] in kw for kw in keywords_lower)
MissesTopicWord(topic_words, keywords_) ==
    ~ \E i \in 1..Len(keywords_) : Contains(topic_words[1], Lower(keywords_[i]))

\* mutant: a keyword of 4 words already counts as long
HasLongKeyword_from_four(keywords_) ==
    \E i \in 1..Len(keywords_) : Len(Split(keywords_[i])) >= MaxWords

\* rule 2: any(len(k.split()) > 4 for k in keywords)
HasLongKeyword(keywords_) ==
    \E i \in 1..Len(keywords_) : Len(Split(keywords_[i])) > MaxWords

\* topic_words[0] raises IndexError when the topic has no word: in the any()
\* of rule 1 when there are keywords, in the message of rule 1 when there are none
suggest_text_improvements(topic_, keywords_) ==
    LET topic_words == Split(Lower(topic_))
    IN IF topic_words = <<>> THEN Unable
       ELSE LET suggestions ==
                    (IF MissesTopicWord(topic_words, keywords_)
                     THEN <<MsgAddTopicWord \o topic_words[1] \o Quote>> ELSE <<>>)
                    \o (IF HasLongKeyword(keywords_) THEN <<MsgTooLong>> ELSE <<>>)
                    \o (IF keywords_ = <<>> THEN <<MsgAddKeywords>> ELSE <<>>)
            IN IF suggestions = <<>> THEN LooksGood
               ELSE SuggestionsPrefix \o Join(JoinSep, suggestions)

\* ------------------------------------------------------------------- inputs
Time == <<"t", "i", "m", "e">>

TimeOut == <<"t", "i", "m", "e", " ", "o", "u", "t">>

Timeout == <<"t", "i", "m", "e", "o", "u", "t">>

FourWords == <<"a", " ", "a", " ", "a", " ", "a">>

FiveWords == <<"a", " ", "a", " ", "a", " ", "a", " ", "a">>

Topics == {<<>>, <<" ">>, <<"a">>, <<"A", " ", "b">>, TimeOut}

KeywordPool == {<<"a">>, <<"A">>, Time, FourWords, FiveWords}

SuggestionPool == {<<"a">>, <<"a", " ", "b">>, <<"B">>}

\* str(e) of the exception the provider call raises
ErrorMessages == {<<>>, Timeout}

SeqsUpTo(S, n) == UNION {[1..k -> S] : k \in 0..n}

KeywordLists == SeqsUpTo(KeywordPool, MaxKw)

\* i keywords "time" followed by ManyKeywords - i keywords "A"
LongLists ==
    {[k \in 1..ManyKeywords |-> IF k <= i THEN Time ELSE <<"A">>] : i \in 0..ManyKeywords}

MaxResultsArgs == (0..MaxResults) \cup {DefaultMax}

\* what the provider may do on one call of a direct function call
CallOutcomes(down) ==
    {Fails(m) : m \in ErrorMessages}
    \cup (IF down THEN {} ELSE {Answers(v) : v \in SeqsUpTo(SuggestionPool, MaxSug)})

\* what the provider may do on one call of a request
RequestOutcomes(down) ==
    {Fails(Timeout)}
    \cup (IF down THEN {}
          ELSE {Answers(<<>>), Answers(<< <<"a">> >>),
                Answers(<< <<"a", " ", "b">>, <<"B">> >>)})

\* -------------------------------------------------------------------- state
VARIABLES
    entry,             \* the function a direct call applies, or the endpoint of a request
    pc,                \* position of the call or of the request's handler
    providerDown,      \* the provider fails on every call
    topic,             \* the topic argument, data.topic or data.query
    keywords,          \* the keywords argument or data.keywords
    max_results,       \* the max_results argument
    fetches,           \* the provider fetches issued so far, in order
    seo_score,
    trending_score,
    related_keywords,
    improvement_text,
    trending_texts,
    response           \* the HTTP response, status 0 while there is none

vars ==
    <<entry, pc, providerDown, topic, keywords, max_results, fetches,
      seo_score, trending_score, related_keywords, improvement_text,
      trending_texts, response>>

locals ==
    <<seo_score, trending_score, related_keywords, improvement_text, trending_texts>>

inputs == <<entry, providerDown, topic, keywords, max_results>>

NoResponse == [status |-> 0, body |-> <<>>]

\* one fetch of the log: who asked, for what, what the provider did and what
\* get_google_autocomplete_suggestions gave back
Fetch(by, q, n, outcome) ==
    [by |-> by, q |-> q, max |-> n, outcome |-> outcome,
     ret |-> get_google_autocomplete_suggestions(q, n, outcome)]

InitLocals ==
    /\ fetches = <<>>
    /\ seo_score = 0
    /\ trending_score = 0
    /\ related_keywords = <<>>
    /\ improvement_text = <<>>
    /\ trending_texts = <<>>
    /\ response = NoResponse

\* a direct call: the function and its arguments
InitCall ==
    /\ pc = "ready"
    /\ providerDown \in BOOLEAN
    /\ \/ /\ entry = "fetch"
          /\ topic \in Topics /\ keywords = <<>> /\ max_results \in MaxResultsArgs
       \/ /\ entry = "seo"
          /\ \/ topic \in Topics /\ keywords \in KeywordLists
             \/ topic = TimeOut /\ keywords \in LongLists
          /\ max_results = DefaultMax
       \/ /\ entry = "trending"
          /\ topic \in Topics /\ keywords = <<>> /\ max_results = DefaultMax
       \/ /\ entry = "related"
          /\ topic \in Topics /\ keywords \in KeywordLists
          /\ max_results \in MaxResultsArgs
       \/ /\ entry = "advice"
          /\ topic \in Topics /\ keywords \in KeywordLists /\ max_results = DefaultMax
    /\ InitLocals

\* a request: the endpoint and the body
InitRequest ==
    /\ providerDown \in BOOLEAN
    /\ topic \in Topics
    /\ max_results = DefaultMax
    /\ \/ entry = "analyze" /\ pc = "seo" /\ keywords \in SeqsUpTo(KeywordPool, MaxKwHttp)
       \/ entry = "serpapi" /\ pc = "search" /\ keywords = <<>>
    /\ InitLocals

Init == InitCall \/ InitRequest

\* ------------------------------------------------------ direct function calls
CallFetch ==
    /\ entry = "fetch" /\ pc = "ready"
    /\ \E o \in CallOutcomes(providerDown) :
        /\ fetches' = Append(fetches, Fetch("fetch", topic, max_results, o))
        /\ trending_texts' =
               get_google_autocomplete_suggestions(topic, max_results, o).value
    /\ pc' = "returned"
    /\ UNCHANGED <<inputs, seo_score, trending_score, related_keywords,
                   improvement_text, response>>

CallSeo ==
    /\ entry = "seo" /\ pc = "ready"
    /\ \E o \in CallOutcomes(providerDown) :
        /\ fetches' = Append(fetches, Fetch("seo", topic, DefaultMax, o))
        /\ seo_score' = calculate_seo_score(topic, keywords, o)
    /\ pc' = "returned"
    /\ UNCHANGED <<inputs, trending_score, related_keywords, improvement_text,
                   trending_texts, response>>

CallTrending ==
    /\ entry = "trending" /\ pc = "ready"
    /\ \E o \in CallOutcomes(providerDown) :
        /\ fetches' = Append(fetches, Fetch("trending", topic, DefaultMax, o))
        /\ trending_score' = calculate_trending_score(topic, o)
    /\ pc' = "returned"
    /\ UNCHANGED <<inputs, seo_score, related_keywords, improvement_text,
                   trending_texts, response>>

CallRelated ==
    /\ entry = "related" /\ pc = "ready"
    /\ \E o \in CallOutcomes(providerDown) :
        /\ fetches' = Append(fetches, Fetch("related", topic, max_results, o))
        /\ related_keywords' = get_related_keywords(topic, keywords, max_results, o)
    /\ pc' = "returned"
    /\ UNCHANGED <<inputs, seo_score, trending_score, improvement_text,
                   trending_texts, response>>

CallAdvice ==
    /\ entry = "advice" /\ pc = "ready"
    /\ improvement_text' = suggest_text_improvements(topic, keywords)
    /\ pc' = "returned"
    /\ UNCHANGED <<inputs, fetches, seo_score, trending_score, related_keywords,
                   trending_texts, response>>

\* ------------------------------------------------------------ POST /analyze
AnalyzeSeo ==
    /\ entry = "analyze" /\ pc = "seo"
    /\ \E o \in RequestOutcomes(providerDown) :
        /\ fetches' = Append(fetches, Fetch("seo", topic, DefaultMax, o))
        /\ seo_score' = calculate_seo_score(topic, keywords, o)
    /\ pc' = "trending"
    /\ UNCHANGED <<inputs, trending_score, related_keywords,
                   improvement_text, trending_texts, response>>

\* mutant: the trending score reuses the outcome of the SEO fetch
AnalyzeTrending_sharing_fetch ==
    /\ entry = "analyze" /\ pc = "trending"
    /\ trending_score' = calculate_trending_score(topic, fetches[1].outcome)
    /\ pc' = "related"
    /\ UNCHANGED <<inputs, fetches, seo_score, related_keywords,
                   improvement_text, trending_texts, response>>

AnalyzeTrending ==
    /\ entry = "analyze" /\ pc = "trending"
    /\ \E o \in RequestOutcomes(providerDown) :
        /\ fetches' = Append(fetches, Fetch("trending", topic, DefaultMax, o))
        /\ trending_score' = calculate_trending_score(topic, o)
    /\ pc' = "related"
    /\ UNCHANGED <<inputs, seo_score, related_keywords,
                   improvement_text, trending_texts, response>>

AnalyzeRelated ==
    /\ entry = "analyze" /\ pc = "related"
    /\ \E o \in RequestOutcomes(providerDown) :
        /\ fetches' = Append(fetches, Fetch("related", topic, DefaultMax, o))
        /\ related_keywords' = get_related_keywords(topic, keywords, DefaultMax, o)
    /\ pc' = "advice"
    /\ UNCHANGED <<inputs, seo_score, trending_score,
                   improvement_text, trending_texts, response>>

AnalyzeAdvice ==
    /\ entry = "analyze" /\ pc = "advice"
    /\ improvement_text' = suggest_text_improvements(topic, keywords)
    /\ pc' = "display"
    /\ UNCHANGED <<inputs, fetches, seo_score, trending_score,
                   related_keywords, trending_texts, response>>

\* the display fetch and the return; a call that raised ends in the handler's
\* except branch
AnalyzeDisplay ==
    /\ entry = "analyze" /\ pc = "display"
    /\ \E o \in RequestOutcomes(providerDown) :
        LET fetched == get_google_autocomplete_suggestions(topic, DefaultMax, o)
        IN /\ fetches' = Append(fetches, Fetch("display", topic, DefaultMax, o))
           /\ IF fetched.raised
              THEN /\ response' = [status |-> StatusError,
                                   body |-> [detail |-> fetched.value]]
                   /\ UNCHANGED trending_texts
              ELSE /\ trending_texts' = fetched.value
                   /\ response' =
                        [status |-> StatusOk,
                         body |-> [seo_score |-> seo_score,
                                   trending_score |-> trending_score,
                                   related_keywords |-> related_keywords,
                                   top_10_trending_texts |-> fetched.value,
                                   suggestion_text |-> improvement_text]]
    /\ pc' = "done"
    /\ UNCHANGED <<inputs, seo_score, trending_score,
                   related_keywords, improvement_text>>

\* ------------------------------------------------------------ POST /serpapi
\* the organic results the search engine answers with
SearchOutcomes(down) ==
    {Fails(Timeout)}
    \cup (IF down THEN {} ELSE {Answers(<<>>), Answers(<< <<"a">> >>)})

SerpapiSearch ==
    /\ entry = "serpapi" /\ pc = "search"
    /\ \E o \in SearchOutcomes(providerDown) :
        response' =
            IF o.raises
            THEN [status |-> StatusError, body |-> [detail |-> o.message]]
            ELSE [status |-> StatusOk,
                  body |-> [query |-> topic, organic_results |-> o.values]]
    /\ pc' = "done"
    /\ UNCHANGED <<inputs, fetches, locals>>

Next ==
    \/ CallFetch
    \/ CallSeo
    \/ CallTrending
    \/ CallRelated
    \/ CallAdvice
    \/ AnalyzeSeo
    \/ AnalyzeTrending
    \/ AnalyzeRelated
    \/ AnalyzeAdvice
    \/ AnalyzeDisplay
    \/ SerpapiSearch

Spec == Init /\ [][Next]_vars

\* ------------------------------------------------------------------ claims
Returns(fn) == entry = fn /\ pc = "returned"

\* the provider gave nothing usable: it failed, or it answered with no suggestion
NoUsable(outcome) == outcome.raises \/ outcome.values = <<>>

FetchBy(by) == {i \in 1..Len(fetches) : fetches[i].by = by}

\* C1: calculate_seo_score and calculate_trending_score return an integer in
\* 0..100, for every topic, keyword list and provider outcome (non-empty answer,
\* empty answer, failure), called directly or by POST /analyze.
ScoresInRange ==
    /\ seo_score \in 0..Percent
    /\ trending_score \in 0..Percent

\* a request whose SEO fetch failed and whose trending fetch answered, both
\* scores computed and neither 0 nor 100 together
ScoresInRangeWitness ==
    /\ entry = "analyze" /\ pc = "done"
    /\ fetches[1].outcome.raises
    /\ ~ NoUsable(fetches[2].outcome)
    /\ seo_score = Percent
    /\ trending_score \in 1..(Percent - 1)

\* C2: when the fetch yields no usable suggestion (empty answer, or a failed
\* provider call) calculate_seo_score and calculate_trending_score return 0.
NoUsableMeansZero ==
    \A i \in 1..Len(fetches) :
        NoUsable(fetches[i].outcome) =>
            /\ fetches[i].by = "seo" => seo_score = 0
            /\ fetches[i].by = "trending" => trending_score = 0

\* C3: with the provider failing on every call, POST /analyze completes with
\* status 200 and its five fields, never 500, and POST /serpapi ends in a 500.
AnalyzeFields ==
    {"seo_score", "trending_score", "related_keywords", "top_10_trending_texts",
     "suggestion_text"}

ProviderDownResponses ==
    (providerDown /\ pc = "done") =>
        /\ entry = "analyze" =>
              /\ response.status = StatusOk
              /\ DOMAIN response.body = AnalyzeFields
        /\ entry = "serpapi" => response.status = StatusError

\* a finished /analyze request all four of whose fetches failed
ProviderDownWitness ==
    /\ entry = "analyze" /\ pc = "done" /\ providerDown
    /\ Len(fetches) = 4
    /\ \A i \in 1..Len(fetches) : fetches[i].outcome.raises
    /\ response.status = StatusOk

\* C4: get_related_keywords(T, K, N) is the first N elements of the fetched
\* suggestions S followed by K with every repeated entry but its first
\* occurrence removed; so it has no duplicates, at most N entries, and every
\* retained suggestion precedes every retained keyword that is no suggestion.
FirstIndexes(s) == {i \in 1..Len(s) : \A j \in 1..(i - 1) : s[j] # s[i]}

FirstOccurrences(s) ==
    [k \in 1..Cardinality(FirstIndexes(s)) |->
        s[CHOOSE i \in FirstIndexes(s) :
              Cardinality({j \in FirstIndexes(s) : j < i}) = k - 1]]

InSeq(e, s) == \E i \in 1..Len(s) : s[i] = e

MergedAs(out, S, K, N) ==
    /\ out = Take(FirstOccurrences(S \o K), N)
    /\ Len(out) <= N
    /\ \A i, j \in 1..Len(out) : i # j => out[i] # out[j]
    /\ \A i, j \in 1..Len(out) : (InSeq(out[i], S) /\ ~ InSeq(out[j], S)) => i < j
    /\ \A i \in 1..Len(out) : InSeq(out[i], S) \/ InSeq(out[i], K)

RelatedIsMerge ==
    \A i \in FetchBy("related") :
        MergedAs(related_keywords, fetches[i].ret.value, keywords, fetches[i].max)

\* a direct call in which a keyword equal to a suggestion was dropped and the
\* merged list was cut to N
RelatedIsMergeWitness ==
    /\ Returns("related")
    /\ max_results >= 1
    /\ \E k \in 1..Len(keywords) : InSeq(keywords[k], fetches[1].ret.value)
    /\ Len(FirstOccurrences(fetches[1].ret.value \o keywords)) > max_results
    /\ \E k \in 1..Len(keywords) : InSeq(keywords[k], related_keywords)

\* C5: when the provider call raises, get_related_keywords(T, K, N) returns
\* exactly the first N elements of K.
RelatedFailsSoftToKeywords ==
    \A i \in FetchBy("related") :
        fetches[i].outcome.raises =>
            related_keywords = Take(keywords, fetches[i].max)

\* C6 as stated: get_google_autocomplete_suggestions returns at most max_results
\* elements, for every max_results including 0.
FetchWithinMax ==
    \A i \in 1..Len(fetches) : Len(fetches[i].ret.value) <= fetches[i].max

\* C6 as amended: it returns at most max_results elements when max_results >= 1,
\* and exactly one element, the sentinel or the error marker, when
\* max_results = 0.
FetchWithinMaxOrMarker ==
    \A i \in 1..Len(fetches) :
        /\ ~ fetches[i].ret.raised
        /\ fetches[i].max >= 1 => Len(fetches[i].ret.value) <= fetches[i].max
        /\ fetches[i].max = 0 =>
              \/ fetches[i].ret.value = <<NoSuggestions>>
              \/ fetches[i].ret.value = <<ErrorPrefix \o fetches[i].outcome.message>>

\* a direct call that cut the provider's answer to max_results >= 1
FetchWithinMaxWitness ==
    /\ Returns("fetch")
    /\ max_results >= 1
    /\ Len(fetches[1].outcome.values) > max_results
    /\ Len(trending_texts) = max_results

\* C7: suggest_text_improvements(T, K) returns "Keywords and topic look good."
\* if and only if none of its rules triggers: (1) no lowercased keyword contains
\* the first lowercased word of T, (2) some keyword has more than 4
\* whitespace-delimited words, (3) K is empty.  A topic without a word has no
\* first word for a keyword to contain, so rule (1) triggers for it; the
\* function then returns its fixed error message.
WordStarts(s) ==
    {i \in 1..Len(s) : ~ IsSpace(s[i]) /\ (i = 1 \/ IsSpace(s[i - 1]))}

IsFirstWordOf(w, s) ==
    /\ w # <<>>
    /\ \E i \in WordStarts(s) :
        /\ \A j \in WordStarts(s) : i <= j
        /\ i + Len(w) - 1 <= Len(s)
        /\ SubSeq(s, i, i + Len(w) - 1) = w
        /\ \A j \in i..(i + Len(w) - 1) : ~ IsSpace(s[j])
        /\ (i + Len(w) <= Len(s)) => IsSpace(s[i + Len(w)])

RuleOne(T, K) ==
    ~ \E k \in 1..Len(K) : \E a \in 1..Len(K[k]), b \in 1..Len(K[k]) :
        IsFirstWordOf(SubSeq(Lower(K[k]), a, b), Lower(T))

RuleTwo(K) == \E k \in 1..Len(K) : Cardinality(WordStarts(K[k])) > 4

RuleThree(K) == K = <<>>

LooksGoodIffNoRule ==
    (Returns("advice") \/ (entry = "analyze" /\ pc \in {"display", "done"})) =>
        /\ improvement_text = LooksGood <=>
              ~ (RuleOne(topic, keywords) \/ RuleTwo(keywords) \/ RuleThree(keywords))
        /\ WordStarts(topic) = {} => improvement_text = Unable

\* a direct call answered "look good" although a keyword has exactly 4 words
\* and the topic's first word matches only after lowercasing
LooksGoodWitness ==
    /\ Returns("advice")
    /\ improvement_text = LooksGood
    /\ InSeq(FourWords, keywords)
    /\ topic = <<"A", " ", "b">>

\* C8: calculate_seo_score returns floor(100 * matched / max(|K|, 1)), matched
\* being the number of keywords (with multiplicity) that match some fetched
\* suggestion other than the sentinel, case-insensitively and in either
\* direction; so it returns 0 when K is empty.
MatchedCount(K, S) ==
    Cardinality({k \in 1..Len(K) : KeywordMatches(K[k], S)})

SeoScoreIsFloor ==
    \A i \in FetchBy("seo") :
        seo_score =
            (Percent * MatchedCount(keywords, fetches[i].ret.value))
                \div (IF Len(keywords) > 1 THEN Len(keywords) ELSE 1)

\* C9: a POST /analyze request issues exactly four fetches for its topic, in
\* the order SEO score, trending score, related keywords, display list; no
\* fetch is shared, each response field being the function of the outcome of
\* its own fetch.
FetchOrder == <<"seo", "trending", "related", "display">>

FetchesDue ==
    CASE pc = "seo" -> 0
      [] pc = "trending" -> 1
      [] pc = "related" -> 2
      [] pc \in {"advice", "display"} -> 3
      [] OTHER -> 4

FourOwnFetches ==
    entry = "analyze" =>
        /\ Len(fetches) = FetchesDue
        /\ \A i \in 1..Len(fetches) :
              /\ fetches[i].by = FetchOrder[i]
              /\ fetches[i].q = topic
              /\ fetches[i].max = DefaultMax
        /\ Len(fetches) >= 1 =>
              seo_score = calculate_seo_score(topic, keywords, fetches[1].outcome)
        /\ Len(fetches) >= 2 =>
              trending_score = calculate_trending_score(topic, fetches[2].outcome)
        /\ Len(fetches) >= 3 =>
              related_keywords =
                  get_related_keywords(topic, keywords, DefaultMax, fetches[3].outcome)
        /\ pc = "done" =>
              /\ response.status = StatusOk
              /\ response.body.seo_score = seo_score
              /\ response.body.trending_score = trending_score
              /\ response.body.related_keywords = related_keywords
              /\ response.body.top_10_trending_texts = fetches[4].ret.value
              /\ response.body.suggestion_text =
                    suggest_text_improvements(topic, keywords)

\* a finished request whose four fetches met four different provider outcomes
FourOwnFetchesWitness ==
    /\ entry = "analyze" /\ pc = "done"
    /\ \A i, j \in 1..4 : i # j => fetches[i].outcome # fetches[j].outcome
    /\ fetches[1].outcome.raises
    /\ response.body.seo_score # 0
    /\ response.body.top_10_trending_texts = <<NoSuggestions>>

\* C10: get_google_autocomplete_suggestions never raises and never returns an
\* empty list: its result is the real suggestions, the single sentinel or a
\* single error marker; so max(len(suggestions), 1) in calculate_trending_score
\* is len(suggestions), and top_10_trending_texts of an /analyze response is
\* never empty.
FetchNeverEmpty ==
    /\ \A i \in 1..Len(fetches) :
          LET ret == fetches[i].ret
              given == fetches[i].outcome
          IN /\ ~ ret.raised
             /\ Len(ret.value) >= 1
             /\ \/ ~ given.raises /\ ret.value = Take(given.values, fetches[i].max)
                \/ ~ given.raises /\ ret.value = <<NoSuggestions>>
                \/ given.raises /\ ret.value = <<ErrorPrefix \o given.message>>
             /\ (IF Len(ret.value) > 1 THEN Len(ret.value) ELSE 1) = Len(ret.value)
    /\ (entry = "analyze" /\ pc = "done") =>
          /\ response.status = StatusOk
          /\ response.body.top_10_trending_texts # <<>>

\* a direct call with max_results = 0 that the provider answered with
\* suggestions: the result is the sentinel alone
FetchNeverEmptyWitness ==
    /\ Returns("fetch")
    /\ max_results = 0
    /\ fetches[1].outcome.values # <<>>
    /\ trending_texts = <<NoSuggestions>>

====
